---- MODULE Spec2Model ----
(***************************************************************************)
(* Model of push_data_stock_to_Redis.py: the row normalizers, the two      *)
(* series builders, and sync_stock_data_to_redis with its caller, the      *)
(* /push_stock_data endpoint.                                              *)
(*                                                                         *)
(* Values.  A database cell is a record [kind, num, text]: kind "null" is  *)
(* Python None, "num" a number, "text" a str read from the source (held as *)
(* the sequence of its characters), "date" a datetime.date held as the     *)
(* integer yyyymmdd.  Text the program produces is a string.  A raw        *)
(* row (a RealDictCursor dict of the two selected columns) is              *)
(* [date, col, val]: the "date" cell, the name of the selected price       *)
(* column and its cell.  An output point (a dict with "date" and one price *)
(* key) is [date, field, value].                                           *)
(***************************************************************************)
EXTENDS Integers, Sequences, FiniteSets, TLC

\* ------------------------------------------------------------------ bounds
\* Longest list of raw rows handed to a normalizer in SpecRows.
MaxLen == 2
\* Number of runs of sync_stock_data_to_redis in one behaviour of Spec.
MaxRuns == 2
\* Number of times the relational source is modified between runs.
MaxChanges == 1

\* ------------------------------------------------------------------- cells
NullCell == [kind |-> "null", num |-> 0, text |-> <<>>]
NumCell(n) == [kind |-> "num", num |-> n, text |-> <<>>]
TextCell(s) == [kind |-> "text", num |-> 0, text |-> s]
DateCell(d) == [kind |-> "date", num |-> d, text |-> <<>>]

MkDate(y, m, d) == y * 10000 + m * 100 + d
YearOf(d) == d \div 10000
MonthOf(d) == (d \div 100) % 100
DayOf(d) == d % 100

DigitChars == <<"0", "1", "2", "3", "4", "5", "6", "7", "8", "9">>
IsDigit(c) == \E i \in 1..10 : DigitChars[i] = c
DigitVal(c) == (CHOOSE i \in 1..10 : DigitChars[i] = c) - 1

\* str(n) of a non-negative whole number.
RECURSIVE StrNat(_)
StrNat(n) == IF n < 10 THEN <<DigitChars[n + 1]>>
             ELSE Append(StrNat(n \div 10), DigitChars[(n % 10) + 1])

\* n written with at least w digits ('%Y', '%m', '%d' zero-pad).
RECURSIVE Pad(_, _)
Pad(s, w) == IF Len(s) >= w THEN s ELSE Pad(<<"0">> \o s, w)

\* The str whose characters are the elements of s.
RECURSIVE Join(_)
Join(s) == IF s = <<>> THEN "" ELSE Head(s) \o Join(Tail(s))

\* str(row[price_column_name])
PyStr(cell) == IF cell.kind = "num" THEN StrNat(cell.num) ELSE cell.text

\* s.replace(',', '')
RECURSIVE RemoveCommas(_)
RemoveCommas(s) ==
    IF s = <<>> THEN <<>>
    ELSE IF Head(s) = "," THEN RemoveCommas(Tail(s))
    ELSE <<Head(s)>> \o RemoveCommas(Tail(s))

\* float(s): [ok, value]; ok = FALSE is ValueError.  Whole numbers only.
RECURSIVE DigitsValue(_)
DigitsValue(s) == IF s = <<>> THEN 0
                  ELSE DigitsValue(SubSeq(s, 1, Len(s) - 1)) * 10 + DigitVal(s[Len(s)])
PyFloat(s) ==
    IF s # <<>> /\ \A i \in 1..Len(s) : IsDigit(s[i])
    THEN [ok |-> TRUE, value |-> DigitsValue(s)]
    ELSE [ok |-> FALSE, value |-> 0]

\* row['date'].strftime('%Y-%m-%d'): [ok, text]; ok = FALSE is the
\* AttributeError of a value that is no date object.
Strftime(cell) ==
    IF cell.kind = "date"
    THEN [ok |-> TRUE,
          text |-> Join(Pad(StrNat(YearOf(cell.num)), 4) \o <<"-">>
                        \o Pad(StrNat(MonthOf(cell.num)), 2) \o <<"-">>
                        \o Pad(StrNat(DayOf(cell.num)), 2))]
    ELSE [ok |-> FALSE, text |-> ""]

\* row.get(name)
RowGet(row, name) == IF name = "date" THEN row.date
                     ELSE IF name = row.col THEN row.val
                     ELSE NullCell

\* One iteration of the normalizers' loop body on `row`, the output key
\* being `field`: "skip" (continue), "emit" (append point) or "raise" (an
\* exception the except clause does not catch).
NormalizeRow(row, price_column_name, field) ==
    IF RowGet(row, "date").kind = "null" \/ RowGet(row, price_column_name).kind = "null"
    THEN [res |-> "skip", point |-> <<>>]
    ELSE LET d == Strftime(RowGet(row, "date"))
             f == PyFloat(RemoveCommas(PyStr(RowGet(row, price_column_name))))
         IN  IF ~d.ok THEN [res |-> "raise", point |-> <<>>]
             ELSE IF ~f.ok THEN [res |-> "skip", point |-> <<>>]
             ELSE [res |-> "emit",
                   point |-> <<[date |-> d.text, field |-> field, value |-> f.value]>>]

RECURSIVE NormalizeLoop(_, _, _, _)
NormalizeLoop(rows, price_column_name, field, processed_rows) ==
    IF rows = <<>> THEN [raised |-> FALSE, out |-> processed_rows]
    ELSE LET r == NormalizeRow(Head(rows), price_column_name, field)
         IN  IF r.res = "raise" THEN [raised |-> TRUE, out |-> <<>>]
             ELSE NormalizeLoop(Tail(rows), price_column_name, field,
                                processed_rows \o r.point)

process_rows(rows, price_column_name) ==
    NormalizeLoop(rows, price_column_name, "close_price", <<>>)

process_rows_with_prediction(rows, price_column_name, keep_original_label) ==
    NormalizeLoop(rows, price_column_name,
                  IF keep_original_label /\ price_column_name = "predict_price"
                  THEN "predict_price" ELSE "close_price",
                  <<>>)

\* ------------------------------------------------------- relational source
(***************************************************************************)
(* The relational source holds one table per instrument; a table is a      *)
(* sequence (in storage order) of rows [date, close_price, predict_price]. *)
(* The instant of a run, NOW(), is taken at the start of the day NowDate,  *)
(* so NOW() and NOW()::date denote the same day and every comparison of    *)
(* the queries is a comparison of days.                                    *)
(***************************************************************************)
NowDate == MkDate(2024, 6, 15)

IsLeap(y) == y % 4 = 0 /\ (y % 100 # 0 \/ y % 400 = 0)
DaysIn(y, m) == IF m = 2 THEN (IF IsLeap(y) THEN 29 ELSE 28)
                ELSE IF m \in {4, 6, 9, 11} THEN 30 ELSE 31
Min(a, b) == IF a <= b THEN a ELSE b

\* d - INTERVAL 'k months' (the day clamped to the month's length).
MinusMonths(d, k) ==
    LET total == YearOf(d) * 12 + (MonthOf(d) - 1) - k
        y == total \div 12
        m == (total % 12) + 1
    IN  MkDate(y, m, Min(DayOf(d), DaysIn(y, m)))

NextDay(d) ==
    IF DayOf(d) < DaysIn(YearOf(d), MonthOf(d)) THEN d + 1
    ELSE IF MonthOf(d) < 12 THEN MkDate(YearOf(d), MonthOf(d) + 1, 1)
    ELSE MkDate(YearOf(d) + 1, 1, 1)

\* d + INTERVAL 'n days'
RECURSIVE PlusDays(_, _)
PlusDays(d, n) == IF n = 0 THEN d ELSE PlusDays(NextDay(d), n - 1)

\* The forward horizon of the future-predicted query, in days.
FutureDays == 10
\* The expiration of every staged key, in seconds.
ExpireSeconds == 86400

\* f'"{stock_ticker}_Stock"'
TableName(stock_ticker) == <<stock_ticker, "_Stock">>

IsDate(cell) == cell.kind = "date"

\* The WHERE clause of each query text, on one table row.  A NULL date
\* satisfies no comparison.
WhereHolds(row, where) ==
    CASE where.kind = "none" -> TRUE
      [] where.kind = "since" ->
            IsDate(row.date) /\ row.date.num >= MinusMonths(NowDate, where.months)
      [] where.kind = "past_actual" ->
            /\ IsDate(row.date)
            /\ row.date.num >= MinusMonths(NowDate, where.months)
            /\ row.date.num <= NowDate
      [] where.kind = "past_predicted" ->
            /\ IsDate(row.date)
            /\ row.date.num >= MinusMonths(NowDate, where.months)
            /\ row.date.num < NowDate
            /\ row.predict_price.kind # "null"
      [] where.kind = "future" ->
            /\ IsDate(row.date)
            /\ row.date.num >= NowDate
            /\ row.date.num <= PlusDays(NowDate, FutureDays)

\* ORDER BY "date" ASC (NULLs last), by insertion; rows of equal date keep
\* their storage order.
DateKey(row) == IF IsDate(row.date) THEN row.date.num ELSE MkDate(10000, 1, 1)
RECURSIVE InsertByDate(_, _)
InsertByDate(sorted, row) ==
    IF sorted = <<>> THEN <<row>>
    ELSE IF DateKey(row) < DateKey(Head(sorted)) THEN <<row>> \o sorted
    ELSE <<Head(sorted)>> \o InsertByDate(Tail(sorted), row)
RECURSIVE OrderByDate(_)
OrderByDate(rows) ==
    IF rows = <<>> THEN <<>>
    ELSE InsertByDate(OrderByDate(SubSeq(rows, 1, Len(rows) - 1)), rows[Len(rows)])

\* SELECT "date", "<col>": the dict a RealDictCursor returns for a table row.
Project(row, col) ==
    [date |-> row.date, col |-> col,
     val |-> IF col = "predict_price" THEN row.predict_price ELSE row.close_price]

RECURSIVE SelectRows(_, _)
SelectRows(rows, query) ==
    IF rows = <<>> THEN <<>>
    ELSE (IF WhereHolds(Head(rows), query.where)
          THEN <<Project(Head(rows), query.col)>> ELSE <<>>)
         \o SelectRows(Tail(rows), query)

\* cursor.execute(query); cursor.fetchall() on the source `db`.
RunQuery(db, query) == SelectRows(OrderByDate(db[query.table]), query)

Query(stock_ticker, col, kind, months) ==
    [table |-> TableName(stock_ticker), col |-> col,
     where |-> [kind |-> kind, months |-> months]]

\* A cursor is [db, failAt]: the source it reads and which of the execute
\* calls made on it from now on raises (0: none does).
Execute(cursor, n, query) ==
    IF cursor.failAt = n THEN [raised |-> TRUE, rows |-> <<>>]
    ELSE [raised |-> FALSE, rows |-> RunQuery(cursor.db, query)]

\* Result of a builder: whether it raised, the Series, the queries executed
\* (the raising one included), in order.
Raised(queries) == [raised |-> TRUE, out |-> <<>>, queries |-> queries]

\* time_condition is [tag, months]: "" (tag "EMPTY") or a WHERE clause
\* "date >= NOW() - INTERVAL ..." (tag "WHERE") of that many months.
fetch_stock_data(cursor, stock_ticker, time_condition) ==
    LET query == IF time_condition.tag = "WHERE"
                 THEN Query(stock_ticker, "close_price", "since", time_condition.months)
                 ELSE Query(stock_ticker, "close_price", "none", 0)
        ex == Execute(cursor, 1, query)
        pr == process_rows(ex.rows, "close_price")
    IN  IF ex.raised \/ pr.raised THEN Raised(<<query>>)
        ELSE [raised |-> FALSE, out |-> pr.out, queries |-> <<query>>]

\* Mutant of Combine: a point whose date an earlier point already has is dropped.
RECURSIVE DedupByDate(_, _)
DedupByDate(points, kept) ==
    IF points = <<>> THEN kept
    ELSE IF \E k \in 1..Len(kept) : kept[k].date = Head(points).date
    THEN DedupByDate(Tail(points), kept)
    ELSE DedupByDate(Tail(points), Append(kept, Head(points)))
CombineDedup(past_historical, past_predictions, future_data) ==
    DedupByDate((past_historical \o past_predictions) \o future_data, <<>>)

\* all_past_data = processed_past_historical + processed_past_predictions;
\* combined_data = all_past_data + processed_future_data
Combine(past_historical, past_predictions, future_data) ==
    (past_historical \o past_predictions) \o future_data

\* interval_str is the number of months of the lookback interval.
fetch_stock_data_combined(cursor, stock_ticker, interval_str) ==
    LET past_historical_query ==
            Query(stock_ticker, "close_price", "past_actual", interval_str)
        past_prediction_query ==
            Query(stock_ticker, "predict_price", "past_predicted", interval_str)
        future_query == Query(stock_ticker, "predict_price", "future", 0)
        e1 == Execute(cursor, 1, past_historical_query)
        processed_past_historical == process_rows(e1.rows, "close_price")
        e2 == Execute(cursor, 2, past_prediction_query)
        processed_past_predictions ==
            process_rows_with_prediction(e2.rows, "predict_price", TRUE)
        e3 == Execute(cursor, 3, future_query)
        processed_future_data ==
            process_rows_with_prediction(e3.rows, "predict_price", TRUE)
        combined_data == Combine(processed_past_historical.out,
                                 processed_past_predictions.out,
                                 processed_future_data.out)
    IN  IF e1.raised \/ processed_past_historical.raised
        THEN Raised(<<past_historical_query>>)
        ELSE IF e2.raised \/ processed_past_predictions.raised
        THEN Raised(<<past_historical_query, past_prediction_query>>)
        ELSE IF e3.raised \/ processed_future_data.raised
        THEN Raised(<<past_historical_query, past_prediction_query, future_query>>)
        ELSE [raised |-> FALSE, out |-> combined_data,
              queries |-> <<past_historical_query, past_prediction_query, future_query>>]

\* ------------------------------------------------------------ cache store
\* Mutant of RedisKey: the range is left out of the key.
RedisKeyNoRange(ticker, range_key) == <<"stock", ":", ticker>>

\* f"stock:{ticker}:{range_key}"
RedisKey(ticker, range_key) == <<"stock", ":", ticker, ":", range_key>>

\* json.dumps of a float that is a whole number: its digits and ".0".
JsonNumber(value) == Join(StrNat(value)) \o ".0"

\* json.dumps of one point: {"date": "<date>", "<field>": <value>}
JsonPoint(point) ==
    "{\"date\": \"" \o point.date \o "\", \"" \o point.field \o "\": "
    \o JsonNumber(point.value) \o "}"

RECURSIVE JsonItems(_)
JsonItems(points) ==
    IF points = <<>> THEN ""
    ELSE IF Len(points) = 1 THEN JsonPoint(points[1])
    ELSE JsonPoint(Head(points)) \o ", " \o JsonItems(Tail(points))

\* json.dumps(stock_data)
JsonDumps(stock_data) == "[" \o JsonItems(stock_data) \o "]"

\* Mutant of CacheSet: the new value is appended to the one already stored.
CacheSetAppend(store, cmd) ==
    {e \in store : e.key # cmd.key}
    \cup {[key |-> cmd.key,
           value |-> IF \E e \in store : e.key = cmd.key
                     THEN (CHOOSE e \in store : e.key = cmd.key).value \o cmd.value
                     ELSE cmd.value,
           ttl |-> cmd.ex]}

\* The store is a set of entries [key, value, ttl], one per key.
\* SET key value EX ex on the store.
CacheSet(store, cmd) ==
    {e \in store : e.key # cmd.key}
    \cup {[key |-> cmd.key, value |-> cmd.value, ttl |-> cmd.ex]}

\* The commands of a batch applied in order (MULTI ... EXEC).
RECURSIVE ApplyBatch(_, _)
ApplyBatch(store, commands) ==
    IF commands = <<>> THEN store
    ELSE ApplyBatch(CacheSet(store, Head(commands)), Tail(commands))

\* ------------------------------------------------------------ the sync run
STOCKS_TO_PROCESS == <<"FPT", "GAS", "IMP", "VCB">>

\* TIME_RANGES.items(), in the dict's insertion order.
TIME_RANGES ==
    << [range_key |-> "all", condition |-> [tag |-> "EMPTY", months |-> 0]],
       [range_key |-> "1M", condition |-> [tag |-> "SPECIAL_CASE", months |-> 0]],
       [range_key |-> "3M", condition |-> [tag |-> "SPECIAL_CASE", months |-> 0]],
       [range_key |-> "1Y", condition |-> [tag |-> "WHERE", months |-> 12]],
       [range_key |-> "5Y", condition |-> [tag |-> "WHERE", months |-> 60]] >>

\* SPECIAL_CASE_INTERVALS.get(range_key), in months; 0 is None.
SPECIAL_CASE_INTERVALS == ("1M" :> 1) @@ ("3M" :> 3)
IntervalGet(range_key) ==
    IF range_key \in DOMAIN SPECIAL_CASE_INTERVALS
    THEN SPECIAL_CASE_INTERVALS[range_key] ELSE 0

\* The body of the double loop up to the Series: which builder is called.
BuildSeries(cursor, ticker, range_key, condition) ==
    IF condition.tag = "SPECIAL_CASE"
    THEN LET interval == IntervalGet(range_key)
         IN  IF interval # 0
             THEN fetch_stock_data_combined(cursor, ticker, interval)
             ELSE [raised |-> FALSE, out |-> <<>>, queries |-> <<>>]
    ELSE fetch_stock_data(cursor, ticker, condition)

\* Mutant of Stage: the command is added whether or not the Series is empty.
StageAlways(commands, ticker, range_key, stock_data) ==
    Append(commands, [key |-> <<"stock", ":", ticker, ":", range_key>>,
                      value |-> JsonDumps(stock_data),
                      ex |-> ExpireSeconds])

\* if stock_data: pipe.set(redis_key, json_data, ex=86400)
Stage(commands, ticker, range_key, stock_data) ==
    IF stock_data # <<>>
    THEN Append(commands, [key |-> RedisKey(ticker, range_key),
                           value |-> JsonDumps(stock_data),
                           ex |-> ExpireSeconds])
    ELSE commands

\* Mutant of LoopDone: the commit sits inside the outer loop.
LoopDoneEarly(t) == t > 1

\* The outer for loop is over: every ticker has been handled.
LoopDone(t) == t > Len(STOCKS_TO_PROCESS)

\* Mutant of PipelineExit: leaving the with block sends what was staged.
PipelineExitFlush(store, commands) == ApplyBatch(store, commands)

\* Leaving the with block: the pipeline is reset, the commands still on its
\* stack are dropped and the store is as it was.
PipelineExit(store, commands) == store

\* Mutant of FinallyClose: the finally clause closes nothing.
FinallyNoClose(conn) == conn

\* finally: if pg_conn: pg_conn.close()
FinallyClose(conn) == IF conn = "open" THEN "closed" ELSE conn

\* The endpoint's answer for what the run returned or raised.
EndpointResponse(res) == IF res = "success" THEN "200" ELSE "500"

\* ------------------------------------------------------------------- state
VARIABLES
    source,           \* relational source: table name -> table
    cache,            \* cache store: set of entries [key, value, ttl]
    pc,               \* position of the run in sync_stock_data_to_redis
    pg_conn,          \* "none" (None), "open", "closed"
    redis_conn,       \* "none" (not yet obtained) or "open"; no step closes it
    pipe,             \* the pipeline's command stack
    tIdx,             \* index of ticker in STOCKS_TO_PROCESS
    rIdx,             \* index of (range_key, condition) in TIME_RANGES
    stock_data,       \* the Series of the pair handled last
    log,              \* this run's calls on its collaborators, in order
    failed,           \* the step that raised in this run ("none": no step)
    result,           \* "none", "success" (returned) or "raised"
    response,         \* the endpoint's last answer: "none", "200", "500"
    runs,             \* runs started
    changes,          \* modifications of the source made
    cacheAtStart,     \* the store when this run started
    hadSuccess,       \* some run has succeeded
    lastNonEmpty,     \* keys of the non-empty Series of the last successful run
    lastSuccessCache, \* the store when the last successful run returned
    changedSince,     \* the source was modified since the last successful run
    normIn,           \* SpecRows: the arguments of the normalizer call
    normRes           \* SpecRows: what the call gave

vars == <<source, cache, pc, pg_conn, redis_conn, pipe, tIdx, rIdx, stock_data,
          log, failed, result, response, runs, changes, cacheAtStart,
          hadSuccess, lastNonEmpty, lastSuccessCache, changedSince,
          normIn, normRes>>

runLocals == <<pg_conn, redis_conn, pipe, tIdx, rIdx, stock_data, log, failed>>
history == <<cacheAtStart, hadSuccess, lastNonEmpty, lastSuccessCache, changedSince>>
rowsVars == <<normIn, normRes>>

\* --------------------------------------------------------- sampled inputs
TableRow(date, close_price, predict_price) ==
    [date |-> date, close_price |-> close_price, predict_price |-> predict_price]

\* Stored out of date order; today's row is in the past-actual and in the
\* future window, the 2018 row in no window; one close price is text with a
\* thousands separator.
TableMixed ==
    << TableRow(DateCell(NowDate), NumCell(104), NumCell(105)),
       TableRow(DateCell(MkDate(2024, 6, 5)), TextCell(<<"1", ",", "0", "2">>), NumCell(103)),
       TableRow(DateCell(MkDate(2024, 6, 20)), NullCell, NumCell(107)),
       TableRow(DateCell(MkDate(2018, 1, 10)), NumCell(90), NullCell) >>

\* Rows every one of which the normalizers reject.
TableRejected ==
    << TableRow(DateCell(MkDate(2024, 6, 10)), TextCell(<<"x">>), TextCell(<<"1", "x">>)),
       TableRow(NullCell, NumCell(5), NumCell(6)),
       TableRow(DateCell(MkDate(2024, 6, 22)), NullCell, TextCell(<<",">>)) >>

TableSamples == {<<>>, TableMixed, TableRejected}

TableNames == {TableName(STOCKS_TO_PROCESS[k]) : k \in 1..Len(STOCKS_TO_PROCESS)}

NoEvents == <<>>
Event(ev, ticker, range_key, kind, n) ==
    [ev |-> ev, ticker |-> ticker, range |-> range_key, kind |-> kind, n |-> n]

RECURSIVE QueryEvents(_, _, _)
QueryEvents(queries, ticker, range_key) ==
    IF queries = <<>> THEN <<>>
    ELSE <<Event("query", ticker, range_key, Head(queries).where.kind, 0)>>
         \o QueryEvents(Tail(queries), ticker, range_key)

\* ------------------------------------------------------------------- Init
InitRun ==
    /\ pc = "idle"
    /\ pg_conn = "none"
    /\ redis_conn = "none"
    /\ pipe = <<>>
    /\ tIdx = 1
    /\ rIdx = 1
    /\ stock_data = <<>>
    /\ log = NoEvents
    /\ failed = "none"
    /\ result = "none"
    /\ response = "none"
    /\ runs = 0
    /\ changes = 0
    /\ cache = {}
    /\ cacheAtStart = {}
    /\ hadSuccess = FALSE
    /\ lastNonEmpty = {}
    /\ lastSuccessCache = {}
    /\ changedSince = FALSE

Init ==
    /\ source \in [TableNames -> TableSamples]
    /\ InitRun
    /\ normIn = [rows |-> <<>>, col |-> "close_price", keep |-> FALSE]
    /\ normRes = [fn |-> "none", raised |-> FALSE, out |-> <<>>]

\* ---------------------------------------------------------------- actions
\* The endpoint is called: sync_stock_data_to_redis starts (pg_conn = None).
StartRun ==
    /\ pc = "idle"
    /\ runs < MaxRuns
    /\ runs' = runs + 1
    /\ pc' = "connect_pg"
    /\ result' = "none"
    /\ cacheAtStart' = cache
    /\ UNCHANGED <<source, cache, runLocals, response, changes, hadSuccess,
                   lastNonEmpty, lastSuccessCache, changedSince, rowsVars>>

\* A step of the try block raises: control leaves the with block if it
\* was entered (the pipeline is reset), the except clause re-raises, and
\* the finally clause runs on `conn`, the value of pg_conn at that point.
Raise(step, conn) ==
    /\ failed' = step
    /\ result' = "raised"
    /\ pipe' = <<>>
    /\ pg_conn' = FinallyClose(conn)
    /\ pc' = "returned"

\* pg_conn = get_db_connection()
ConnectPg ==
    /\ pc = "connect_pg"
    /\ \/ /\ pg_conn' = "open"
          /\ pc' = "cursor"
          /\ UNCHANGED <<failed, result, pipe>>
       \/ Raise("pg", pg_conn)
    /\ UNCHANGED <<source, cache, redis_conn, tIdx, rIdx, stock_data, log,
                   response, runs, changes, history, rowsVars>>

\* cursor = pg_conn.cursor(...)
MakeCursor ==
    /\ pc = "cursor"
    /\ \/ /\ pc' = "connect_redis"
          /\ UNCHANGED <<failed, result, pipe, pg_conn>>
       \/ Raise("cursor", pg_conn)
    /\ UNCHANGED <<source, cache, redis_conn, tIdx, rIdx, stock_data, log,
                   response, runs, changes, history, rowsVars>>

\* redis_conn = get_redis_connection(); with redis_conn.pipeline() as pipe
ConnectRedis ==
    /\ pc = "connect_redis"
    /\ \/ /\ redis_conn' = "open"
          /\ pc' = "loop"
          /\ pipe' = <<>>
          /\ tIdx' = 1
          /\ rIdx' = 1
          /\ UNCHANGED <<failed, result, pg_conn>>
       \/ /\ Raise("redis", pg_conn)
          /\ UNCHANGED <<redis_conn, tIdx, rIdx>>
    /\ UNCHANGED <<source, cache, stock_data, log, response, runs, changes,
                   history, rowsVars>>

\* One iteration of the double loop, for the pair (ticker, range_key); the
\* failAt-th query of the iteration raises (0: none; a Blended range makes
\* three queries, the others one).
LoopBody ==
    /\ pc = "loop"
    /\ ~LoopDone(tIdx)
    /\ \E failAt \in 0..(IF TIME_RANGES[rIdx].condition.tag = "SPECIAL_CASE"
                         THEN 3 ELSE 1) :
        LET ticker == STOCKS_TO_PROCESS[tIdx]
            range_key == TIME_RANGES[rIdx].range_key
            condition == TIME_RANGES[rIdx].condition
            cursor == [db |-> source, failAt |-> failAt]
        IN  \E built \in {BuildSeries(cursor, ticker, range_key, condition)} :
            \E staged \in {Stage(pipe, ticker, range_key, built.out)} :
            LET queried == log \o QueryEvents(built.queries, ticker, range_key)
            IN
            IF built.raised
            THEN /\ Raise("query", pg_conn)
                 /\ cache' = PipelineExit(cache, pipe)
                 /\ log' = queried
                 /\ UNCHANGED <<tIdx, rIdx, stock_data>>
            ELSE /\ stock_data' = built.out
                 /\ pipe' = staged
                 /\ log' = queried
                        \o <<Event("built", ticker, range_key, "", Len(built.out))>>
                        \o (IF staged # pipe
                            THEN <<Event("stage", ticker, range_key, "", Len(staged))>>
                            ELSE <<>>)
                 /\ IF rIdx < Len(TIME_RANGES)
                    THEN rIdx' = rIdx + 1 /\ tIdx' = tIdx
                    ELSE rIdx' = 1 /\ tIdx' = tIdx + 1
                 /\ UNCHANGED <<failed, result, pc, pg_conn, cache>>
    /\ UNCHANGED <<source, redis_conn, response, runs, changes, history,
                   rowsVars>>

\* pipe.execute() after the double loop; then the with block ends, the run
\* returns its success result and the finally clause runs.  An empty
\* command stack returns at once.  A failing transport leaves the
\* transaction either not executed or executed with its reply lost.
Commit ==
    /\ pc = "loop"
    /\ LoopDone(tIdx)
    /\ log' = Append(log, Event("commit", "", "", "", Len(pipe)))
    /\ \/ /\ cache' = ApplyBatch(cache, pipe)
          /\ pipe' = <<>>
          /\ result' = "success"
          /\ pg_conn' = FinallyClose(pg_conn)
          /\ pc' = "returned"
          /\ UNCHANGED failed
       \/ /\ pipe # <<>>
          /\ \E applied \in BOOLEAN :
                cache' = IF applied THEN ApplyBatch(cache, pipe) ELSE cache
          /\ Raise("commit", pg_conn)
    /\ UNCHANGED <<source, redis_conn, tIdx, rIdx, stock_data, response, runs,
                   changes, history, rowsVars>>

RECURSIVE NonEmptyKeys(_)
NonEmptyKeys(events) ==
    IF events = <<>> THEN {}
    ELSE (IF Head(events).ev = "built" /\ Head(events).n > 0
          THEN {RedisKey(Head(events).ticker, Head(events).range)} ELSE {})
         \cup NonEmptyKeys(Tail(events))

\* trigger_stock_sync_endpoint answers; the run's locals are gone.
Endpoint ==
    /\ pc = "returned"
    /\ response' = EndpointResponse(result)
    /\ pc' = "idle"
    /\ pg_conn' = "none"
    /\ redis_conn' = "none"
    /\ pipe' = <<>>
    /\ tIdx' = 1
    /\ rIdx' = 1
    /\ stock_data' = <<>>
    /\ log' = NoEvents
    /\ failed' = "none"
    /\ IF result = "success"
       THEN /\ hadSuccess' = TRUE
            /\ lastNonEmpty' = NonEmptyKeys(log)
            /\ lastSuccessCache' = cache
            /\ changedSince' = FALSE
       ELSE UNCHANGED <<hadSuccess, lastNonEmpty, lastSuccessCache, changedSince>>
    /\ UNCHANGED <<source, cache, result, runs, changes, cacheAtStart, rowsVars>>

\* Between runs, whoever maintains the relational source replaces a table.
ChangeSource ==
    /\ pc = "idle"
    /\ changes < MaxChanges
    /\ \E tn \in TableNames, t \in TableSamples :
          /\ source[tn] # t
          /\ source' = [source EXCEPT ![tn] = t]
    /\ changes' = changes + 1
    /\ changedSince' = TRUE
    /\ UNCHANGED <<cache, pc, runLocals, result, response, runs, cacheAtStart,
                   hadSuccess, lastNonEmpty, lastSuccessCache, rowsVars>>

\* ------------------------------------------- the normalizers on their own
\* A date value that is no date object: the text "13-45".
MalformedDate == TextCell(<<"1", "3", "-", "4", "5">>)

DateSamples == {NullCell, DateCell(NowDate), MalformedDate}
PriceSamples == {NullCell, NumCell(7), TextCell(<<"1", ",", "2">>), TextCell(<<"x">>)}
ColumnNames == {"close_price", "predict_price"}

RawRows == [date : DateSamples, col : ColumnNames, val : PriceSamples]

SeqsUpTo(S, n) == UNION {[1..k -> S] : k \in 0..n}

InitRows ==
    /\ source = [tn \in TableNames |-> <<>>]
    /\ InitRun
    /\ normIn \in [rows : SeqsUpTo(RawRows, MaxLen), col : ColumnNames, keep : BOOLEAN]
    /\ normRes = [fn |-> "none", raised |-> FALSE, out |-> <<>>]

CallResult(fn, res) == [fn |-> fn, raised |-> res.raised, out |-> res.out]

\* process_rows(rows, price_column_name)
CallProcessRows ==
    /\ normRes.fn = "none"
    /\ normRes' = CallResult("process_rows", process_rows(normIn.rows, normIn.col))
    /\ UNCHANGED <<source, cache, pc, runLocals, result, response, runs, changes,
                   history, normIn>>

\* process_rows_with_prediction(rows, price_column_name, keep_original_label)
CallProcessRowsWithPrediction ==
    /\ normRes.fn = "none"
    /\ normRes' = CallResult("process_rows_with_prediction",
                             process_rows_with_prediction(normIn.rows, normIn.col,
                                                          normIn.keep))
    /\ UNCHANGED <<source, cache, pc, runLocals, result, response, runs, changes,
                   history, normIn>>

NextRows == CallProcessRows \/ CallProcessRowsWithPrediction

SpecRows == InitRows /\ [][NextRows]_vars

Next ==
    \/ StartRun
    \/ ConnectPg
    \/ MakeCursor
    \/ ConnectRedis
    \/ LoopBody
    \/ Commit
    \/ Endpoint
    \/ ChangeSource

Spec == Init /\ [][Next]_vars

\* ------------------------------------------------------------------ claims
IsBuilt(e) == e.ev = "built"
IsStage(e) == e.ev = "stage"
IsCommit(e) == e.ev = "commit"
IsQuery(e) == e.ev = "query"
SamePair(e, f) == e.ticker = f.ticker /\ e.range = f.range

\* The (instrument, range) pairs in the order of the double loop.
AllPairs ==
    [k \in 1..(Len(STOCKS_TO_PROCESS) * Len(TIME_RANGES)) |->
        <<STOCKS_TO_PROCESS[((k - 1) \div Len(TIME_RANGES)) + 1],
          TIME_RANGES[((k - 1) % Len(TIME_RANGES)) + 1].range_key>>]

PairsOf(events) == [k \in 1..Len(events) |-> <<events[k].ticker, events[k].range>>]

\* C1: in a run in which no connection step and no query fails, the commit
\* is invoked exactly once, as the last call of the run, after every pair of
\* the instrument list x range registry, in loop order, has been queried,
\* built and (when its Series is non-empty) staged; in no run does a query
\* or a stage follow a commit.
C1_CommitOnceAfterAllPairs ==
    /\ \A i \in 1..Len(log) : IsCommit(log[i]) => i = Len(log)
    /\ (pc = "returned" /\ failed \in {"none", "commit"}) =>
          /\ Len(SelectSeq(log, IsCommit)) = 1
          /\ PairsOf(SelectSeq(log, IsBuilt)) = AllPairs
          /\ \A i \in 1..Len(log) :
                IsBuilt(log[i]) =>
                   /\ i > 1 /\ log[i - 1].ev = "query" /\ SamePair(log[i - 1], log[i])
                   /\ log[i].n > 0 =>
                         i < Len(log) /\ IsStage(log[i + 1]) /\ SamePair(log[i + 1], log[i])

C1_Witness ==
    /\ pc = "returned" /\ failed = "none" /\ result = "success"
    /\ Len(SelectSeq(log, IsStage)) >= 2
    /\ cache # {}

\* C2: a run in which acquiring a connection, creating the cursor or a
\* query raises never invokes the commit, leaves the store as it was when
\* the run started even when earlier pairs were staged, and raises; and the
\* endpoint answers a run that raised with a server error, not a success.
C2_AbortLeavesCacheUntouched ==
    /\ (pc = "returned" /\ failed \in {"pg", "cursor", "redis", "query"}) =>
          /\ SelectSeq(log, IsCommit) = <<>>
          /\ cache = cacheAtStart
          /\ result = "raised"
    /\ (pc = "idle" /\ result = "raised") => response = "500"

C2_Witness ==
    /\ pc = "returned" /\ failed = "query" /\ result = "raised"
    /\ SelectSeq(log, IsStage) # <<>>
    /\ cacheAtStart # {}

\* C3: when the run has returned or raised, whatever the exit path, the
\* relational connection is not open: it was closed, or never opened.
C3_RelationalConnectionClosed ==
    /\ pc = "returned" => pg_conn # "open"
    /\ (pc = "returned" /\ failed # "pg") => pg_conn = "closed"

C3_Witness == pc = "returned" /\ failed = "commit" /\ pg_conn = "closed"

\* C4: when the run has returned or raised, the cache connection obtained
\* from get_redis_connection has been released.
C4_CacheConnectionReleased == pc = "returned" => redis_conn # "open"

\* C5: while the batch is being built, it holds a set-with-TTL command for a
\* pair exactly when the Series built for that pair is non-empty, and one
\* command only; a pair whose Series is empty adds none.
C5_StagedIffNonEmpty ==
    pc = "loop" =>
       /\ {pipe[k].key : k \in 1..Len(pipe)} = NonEmptyKeys(log)
       /\ Len(pipe) = Cardinality(NonEmptyKeys(log))
       /\ Len(pipe) = Len(SelectSeq(log, IsStage))
       /\ \A i \in 1..Len(log) :
             /\ (IsBuilt(log[i]) /\ log[i].n = 0) =>
                   (i = Len(log) \/ ~IsStage(log[i + 1]))
             /\ IsStage(log[i]) =>
                   i > 1 /\ IsBuilt(log[i - 1]) /\ log[i - 1].n > 0
                   /\ SamePair(log[i - 1], log[i])

\* A pair whose rows were all rejected and a pair with no rows have been
\* built empty, and another pair has been staged.
C5_Witness ==
    /\ pc = "loop"
    /\ pipe # <<>>
    /\ \E i \in 1..Len(log) :
          IsBuilt(log[i]) /\ log[i].n = 0
          /\ source[TableName(log[i].ticker)] = TableRejected
    /\ \E i \in 1..Len(log) :
          IsBuilt(log[i]) /\ log[i].n = 0
          /\ source[TableName(log[i].ticker)] = <<>>

\* C6: after a successful run, the store holds a value under a key only if
\* the Series built for that key's pair in that run, the most recent
\* successful one, was non-empty.
C6_KeyOnlyIfLastSeriesNonEmpty ==
    (pc = "idle" /\ result = "success") =>
       \A e \in cache : e.key \in lastNonEmpty

\* C7: a call of a normalizer never raises, gives one point per valid row
\* (a row with a date, and a numeric value in the requested price column)
\* and none for any other row, the valid rows' points in input order.
NumericText(s) ==
    LET NotComma(c) == c # ","
        t == SelectSeq(s, NotComma)
    IN  t # <<>> /\ \A i \in 1..Len(t) : t[i] \in {DigitChars[k] : k \in 1..10}
ValidRow(row, col) ==
    /\ row.date.kind = "date"
    /\ row.col = col
    /\ row.val.kind = "num" \/ (row.val.kind = "text" /\ NumericText(row.val.text))
C7_NormalizerNeverRaises ==
    normRes.fn # "none" =>
       LET Valid(row) == ValidRow(row, normIn.col)
           valid == SelectSeq(normIn.rows, Valid)
       IN  /\ ~normRes.raised
           /\ Len(normRes.out) = Len(valid)
           /\ \A k \in 1..Len(valid) :
                 normRes.out[k].date = Strftime(valid[k].date).text

\* C8: for a Blended range the three queries are made in the order
\* past-actual, past-predicted, future-predicted, and the Series is the
\* normalized past-actual rows, then the normalized past-predicted rows,
\* then the normalized future-predicted rows, every point kept.
PrevIndex == IF rIdx > 1 THEN <<tIdx, rIdx - 1>> ELSE <<tIdx - 1, Len(TIME_RANGES)>>
BlendedJustBuilt ==
    /\ pc = "loop"
    /\ ~(tIdx = 1 /\ rIdx = 1)
    /\ TIME_RANGES[PrevIndex[2]].condition.tag = "SPECIAL_CASE"
C8_BlendedIsConcatenation ==
    BlendedJustBuilt =>
       LET ticker == STOCKS_TO_PROCESS[PrevIndex[1]]
           months == SPECIAL_CASE_INTERVALS[TIME_RANGES[PrevIndex[2]].range_key]
           pa == process_rows(
                    RunQuery(source, Query(ticker, "close_price", "past_actual", months)),
                    "close_price").out
           pp == process_rows_with_prediction(
                    RunQuery(source, Query(ticker, "predict_price", "past_predicted", months)),
                    "predict_price", TRUE).out
           fp == process_rows_with_prediction(
                    RunQuery(source, Query(ticker, "predict_price", "future", 0)),
                    "predict_price", TRUE).out
           q == SelectSeq(log, IsQuery)
       IN  /\ Len(stock_data) = Len(pa) + Len(pp) + Len(fp)
           /\ \A k \in 1..Len(pa) : stock_data[k] = pa[k]
           /\ \A k \in 1..Len(pp) : stock_data[Len(pa) + k] = pp[k]
           /\ \A k \in 1..Len(fp) : stock_data[Len(pa) + Len(pp) + k] = fp[k]
           /\ Len(q) >= 3
           /\ q[Len(q) - 2].kind = "past_actual"
           /\ q[Len(q) - 1].kind = "past_predicted"
           /\ q[Len(q)].kind = "future"

\* A Blended Series in which one date occurs twice, once from the
\* past-actual and once from the future-predicted rows.
C8_Witness ==
    /\ BlendedJustBuilt
    /\ \E i, j \in 1..Len(stock_data) :
          /\ i < j
          /\ stock_data[i].date = stock_data[j].date
          /\ stock_data[i].field = "close_price"
          /\ stock_data[j].field = "predict_price"

\* C9: every command of the batch has the key stock:<instrument>:<range>
\* of the pair it was staged for and expires after 86,400 seconds; no two
\* commands of a run have the same key.
C9_KeysAndTtl ==
    pc = "loop" =>
       LET st == SelectSeq(log, IsStage)
       IN  /\ Len(st) = Len(pipe)
           /\ \A k \in 1..Len(pipe) :
                 /\ pipe[k].key = <<"stock", ":", st[k].ticker, ":", st[k].range>>
                 /\ pipe[k].ex = 86400
           /\ \A j, k \in 1..Len(pipe) : j # k => pipe[j].key # pipe[k].key

C9_Witness ==
    /\ pc = "loop"
    /\ \E j, k \in 1..Len(pipe) :
          /\ pipe[j].key[3] # pipe[k].key[3]
          /\ pipe[j].key[5] # pipe[k].key[5]
    /\ \E j, k \in 1..Len(pipe) :
          /\ j # k
          /\ pipe[j].key[3] = pipe[k].key[3]

====
